---- MODULE Spec2Model ----
(***************************************************************************)
(* Crawl engine of scraper_enhanced.py: SiteScraper.run, the _worker       *)
(* tasks, _scrape_page and _discover_links, together with the URLUtils     *)
(* helpers they call.  The workers are asyncio tasks on one event loop, so *)
(* every action below is the code that runs between two suspension points *)
(* (an await that really waits: queue.get on an empty queue, new_page,     *)
(* set_viewport_size, goto, the processors, eval_on_selector_all,          *)
(* page.close).                                                            *)
(*                                                                         *)
(* A URL or href string is a sequence of tokens, e.g.                      *)
(*   "https://ex.com/a.png#f" = <<"https:","//","ex.com","/","a",".png",   *)
(*                                "#","f">>.                               *)
(*                                                                         *)
(* Three specifications share the variables:                               *)
(*   Spec / FairSpec  the crawl: run, the workers, the inventory merges    *)
(*   AssetSpec        the handle_response callbacks of the AssetProcessor  *)
(*   CallSpec         direct calls of normalize_link, of link discovery    *)
(*                    under the configuration main builds, and of          *)
(*                    update_inventory / finalize_inventory                *)
(* The AssetProcessor and the crawl engine share no state, so the          *)
(* callbacks are interleaved with each other and not with the workers.     *)
(***************************************************************************)
EXTENDS Integers, Sequences, FiniteSets, TLC

\* ------------------------------------------------------------------------
\* Bounds of the model
\* ------------------------------------------------------------------------
MaxWorkers == 2

MaxPagesBound == 2

MaxDepthBound == 2

MaxLinks == 2

\* ------------------------------------------------------------------------
\* Program constants
\* ------------------------------------------------------------------------
retry_failed_pages == TRUE

max_retries == 3

\* literals of ScraperConfig.block_host_patterns
block_host_patterns ==
  {"googletagmanager.com", "google-analytics.com", "hotjar.com",
   "facebook.com", "doubleclick.net", "googlesyndication.com"}

start_url == <<"https:", "//", "ex.com", "/">>

\* hrefs that a[href] elements of a rendered page may carry
Hrefs ==
  { <<"/", "a">>,
    <<"b">>,
    <<"/", "a", "#", "f">>,
    <<"https:", "//", "other.com", "/">>,
    <<"mailto:", "x">>,
    <<"/", "a", ".png">>,
    <<"/", "facebook.com">>,
    <<>> }

\* ------------------------------------------------------------------------
\* String helpers (Python str methods on token sequences)
\* ------------------------------------------------------------------------
Whitespace == {" "}

SchemeTokens == {"https:", "http:", "mailto:", "tel:", "javascript:", "invalid:"}

\* urllib.parse.uses_relative, restricted to the schemes of SchemeTokens
uses_relative == {"", "https:", "http:"}

\* index of the first token of s that is in toks, Len(s)+1 when there is none
FirstIndex(s, toks) ==
  LET hits == {i \in 1..Len(s) : s[i] \in toks}
  IN IF hits = {} THEN Len(s) + 1
     ELSE CHOOSE i \in hits : \A j \in hits : i <= j

\* index of the last token of s that is in toks, 0 when there is none
LastIndex(s, toks) ==
  LET hits == {i \in 1..Len(s) : s[i] \in toks}
  IN IF hits = {} THEN 0
     ELSE CHOOSE i \in hits : \A j \in hits : i >= j

\* surrounding whitespace is kept
Strip_Identity(s) == s

\* str.strip()
Strip(s) ==
  LET keep == {i \in 1..Len(s) : s[i] \notin Whitespace}
  IN IF keep = {} THEN <<>>
     ELSE SubSeq(s, FirstIndex(s, {s[i] : i \in keep}),
                    LastIndex(s, {s[i] : i \in keep}))

\* urlparse: the scheme, "" when the string has none
UrlScheme(s) == IF Len(s) > 0 /\ s[1] \in SchemeTokens THEN s[1] ELSE ""

\* urlparse: what follows the scheme
AfterScheme(s) == IF UrlScheme(s) = "" THEN s ELSE Tail(s)

\* urlparse: the netloc of a string without scheme, <<>> without "//"
NetlocOf(r) ==
  IF Len(r) > 0 /\ r[1] = "//"
    THEN SubSeq(r, 2, FirstIndex(Tail(r), {"/", "?", "#"}))
    ELSE <<>>

\* urlparse: what follows the netloc of a string without scheme
AfterNetloc(r) ==
  IF Len(r) > 0 /\ r[1] = "//"
    THEN SubSeq(r, FirstIndex(Tail(r), {"/", "?", "#"}) + 1, Len(r))
    ELSE r

\* the part of r before the first token of toks
Before(r, toks) == SubSeq(r, 1, FirstIndex(r, toks) - 1)

\* the part of r after the first token of toks
After(r, toks) == SubSeq(r, FirstIndex(r, toks) + 1, Len(r))

\* urllib.parse.urlparse
UrlParse(s) ==
  [scheme |-> UrlScheme(s),
   netloc |-> NetlocOf(AfterScheme(s)),
   path |-> Before(Before(AfterNetloc(AfterScheme(s)), {"#"}), {"?"}),
   query |-> After(Before(AfterNetloc(AfterScheme(s)), {"#"}), {"?"}),
   fragment |-> After(AfterNetloc(AfterScheme(s)), {"#"})]

\* urllib.parse.urlunparse
UrlUnparse(u) ==
  (IF u.scheme = "" THEN <<>> ELSE <<u.scheme>>)
  \o (IF u.netloc = <<>> THEN <<>> ELSE <<"//">> \o u.netloc)
  \o u.path
  \o (IF u.query = <<>> THEN <<>> ELSE <<"?">> \o u.query)
  \o (IF u.fragment = <<>> THEN <<>> ELSE <<"#">> \o u.fragment)

\* urllib.parse.urljoin
UrlJoin(base, url) ==
  IF url = <<>> THEN base
  ELSE
    LET b == UrlParse(base)
        p == UrlParse(url)
        u == IF p.scheme = "" THEN [p EXCEPT !.scheme = b.scheme] ELSE p
    IN IF u.scheme # b.scheme \/ u.scheme \notin uses_relative THEN url
       ELSE IF u.netloc # <<>> THEN UrlUnparse(u)
       ELSE IF u.path = <<>>
         THEN UrlUnparse([u EXCEPT !.netloc = b.netloc, !.path = b.path,
                            !.query = IF u.query = <<>> THEN b.query ELSE u.query])
       ELSE IF u.path[1] = "/"
         THEN UrlUnparse([u EXCEPT !.netloc = b.netloc])
       ELSE UrlUnparse([u EXCEPT !.netloc = b.netloc,
                          !.path = (IF b.path = <<>> THEN <<"/">>
                                    ELSE SubSeq(b.path, 1, LastIndex(b.path, {"/"})))
                                   \o u.path])

\* urllib.parse.urldefrag, first component
UrlDefrag(url) ==
  IF \E i \in 1..Len(url) : url[i] = "#"
    THEN UrlUnparse([UrlParse(url) EXCEPT !.fragment = <<>>])
    ELSE url

\* ------------------------------------------------------------------------
\* URLUtils
\* ------------------------------------------------------------------------
None == <<"None">>

\* URLUtils.normalize_link
normalize_link(current_url, href) ==
  IF href = <<>> \/ href = None THEN None
  ELSE LET h == Strip(href)
       IN IF Len(h) > 0 /\ h[1] \in {"mailto:", "tel:", "javascript:", "#"}
            THEN None
            ELSE UrlDefrag(UrlJoin(current_url, h))

\* URLUtils.is_same_origin
is_same_origin(seed, candidate) ==
  LET a == UrlParse(seed)
      b == UrlParse(candidate)
  IN <<a.scheme, a.netloc>> = <<b.scheme, b.netloc>>

\* no url matches
matches_blocklist_Never(url, patterns) == FALSE

\* URLUtils.matches_blocklist: re.search of each pattern in the url
matches_blocklist(url, patterns) ==
  \E p \in patterns : \E i \in 1..Len(url) : url[i] = p

\* the alternatives of the asset_extensions regex (re.I), as tokens
AssetExtensions ==
  {".pdf", ".zip", ".png", ".jpg", ".jpeg", ".webp", ".gif", ".svg", ".ico",
   ".mp4", ".mov", ".mp3", ".wav", ".woff", ".woff2", ".ttf", ".eot",
   ".PNG", ".JPG"}

\* URLUtils.is_asset_url: the regex is anchored at the end of the whole url
is_asset_url(url) ==
  Len(url) > 0 /\ url[Len(url)] \in AssetExtensions

\* ------------------------------------------------------------------------
\* UICollector: the inventory and its operations
\* ------------------------------------------------------------------------
\* slice limit of the links of a page record
LinksCap == 200

\* slice limit of the buttons of a page
ButtonsCap == 100

\* the font and colour strings of the model, in Python's string order
SortedStrings == <<"Arial", "Helvetica", "arial", "rgb(0, 255, 0)", "rgb(255, 0, 0)">>

\* the elements of a list
Range(f) == {f[i] : i \in DOMAIN f}

\* Python slice list[:n]
Take(list, n) == SubSeq(list, 1, IF Len(list) < n THEN Len(list) ELSE n)

\* a list of n element records (buttons, canvases, controls are opaque dicts)
Items(n) == [i \in 1..n |-> i]

\* collect_from_page failed: it returns {}
EmptyData == [url |-> None]

\* UICollector.__init__
InitialInventory ==
  [pages |-> <<>>,
   fonts |-> {},
   colors |-> {},
   buttons |-> <<>>,
   css_variables |-> <<>>,
   canvases |-> <<>>,
   interactive_controls |-> <<>>,
   components |-> <<>>,
   total_pages |-> 0,
   scraping_end |-> ""]

\* a key that is already set keeps its value
CssMerge_FirstWins(old, new) ==
  [k \in DOMAIN old \cup {j \in DOMAIN new : new[j] # ""} |->
     IF k \in DOMAIN old THEN old[k] ELSE new[k]]

\* update_inventory: the loop over page_data["css_variables"].items()
CssMerge(old, new) ==
  [k \in DOMAIN old \cup {j \in DOMAIN new : new[j] # ""} |->
     IF k \in DOMAIN new /\ new[k] # "" THEN new[k] ELSE old[k]]

\* UICollector.update_inventory
update_inventory(inv, page_data) ==
  IF page_data = EmptyData THEN inv
  ELSE [inv EXCEPT
         !.fonts = @ \cup Range(page_data.ui_data.fonts),
         !.colors = @ \cup Range(page_data.ui_data.colors),
         !.pages = Append(@, [url |-> page_data.url,
                              links |-> Take(page_data.ui_data.links, LinksCap)]),
         !.buttons = @ \o Take(page_data.ui_data.buttons, ButtonsCap),
         !.canvases = @ \o page_data.ui_data.canvases,
         !.interactive_controls = @ \o page_data.ui_data.controls,
         !.components = @ \o page_data.ui_data.components,
         !.css_variables = CssMerge(@, page_data.css_variables)]

\* the strings of the set in descending order
Sorted_Reversed(set) ==
  [i \in 1..Len(SelectSeq(SortedStrings, LAMBDA x : x \in set)) |->
     SelectSeq(SortedStrings, LAMBDA x : x \in set)
       [Len(SelectSeq(SortedStrings, LAMBDA x : x \in set)) + 1 - i]]

\* sorted(list(a_set))
Sorted(set) == SelectSeq(SortedStrings, LAMBDA x : x \in set)

\* UICollector.finalize_inventory
finalize_inventory(inv) ==
  [inv EXCEPT !.fonts = Sorted(@), !.colors = Sorted(@), !.scraping_end = "stamped"]

\* the pages of the crawled site on which the extraction script raises, so
\* that collect_from_page returns {}: every page whose path ends in "b"
ExtractionFails(url) == url[Len(url)] = "b"

\* what collect_from_page returns for a page of the crawl when it succeeds
CrawlPageData(url) ==
  [url |-> url,
   ui_data |-> [fonts |-> <<"Arial">>, colors |-> <<>>, links |-> <<>>,
                buttons |-> Items(1), canvases |-> <<>>, controls |-> <<>>,
                components |-> <<>>],
   css_variables |-> <<>>]

\* ------------------------------------------------------------------------
\* The page processors of _scrape_page
\* ------------------------------------------------------------------------
\* the steps of the try block before link discovery, in order
ProcessSteps == <<"screenshot", "html", "inventory">>

\* ScreenshotProcessor.process_page with save_screenshots: page.context.new_page()
\* is not awaited, so set_viewport_size raises AttributeError on the coroutine
\* and the processor returns False
ScreenshotOk == FALSE

\* a failure inside the step leaves it as an exception
StepRaises_Uncaught(step, ok) == ~ok

\* each step has its own try/except: it logs and returns False or {}
StepRaises(step, ok) == FALSE

\* the steps that run, given which of them succeed: the loop stops at the first
\* step whose exception escapes
StepsRun(ok) ==
  {ProcessSteps[i] : i \in
     {j \in 1..Len(ProcessSteps) :
        \A k \in 1..(j - 1) : ~StepRaises(ProcessSteps[k], ok[ProcessSteps[k]])}}

\* an exception reaches the except branch of _scrape_page
Escapes(ok) == \E i \in 1..Len(ProcessSteps) : StepRaises(ProcessSteps[i], ok[ProcessSteps[i]])

\* ------------------------------------------------------------------------
\* State
\* ------------------------------------------------------------------------
VARIABLES
  config,       \* ScraperConfig fields read by the crawl engine
  run_pc,       \* position of SiteScraper.run: "init", "join", "finalized"
  to_visit,     \* asyncio.Queue contents: sequence of [url, depth]
  unfinished,   \* asyncio.Queue._unfinished_tasks (put: +1, task_done: -1)
  seen_urls,    \* SiteScraper.seen_urls
  failed_urls,  \* SiteScraper.failed_urls
  page_count,   \* SiteScraper.page_count
  sem,          \* value of the asyncio.Semaphore created in run
  pc,           \* position of each _worker task
  cur,          \* (url, depth) each worker got from the queue
  open_pages,   \* pages returned by context.new_page() and not yet closed
  loads,        \* url -> number of page.goto(url) calls made by _scrape_page
  inventory,    \* UICollector.inventory
  finalize_calls, \* number of calls of finalize_inventory
  saved_assets, \* AssetProcessor.saved_assets
  disk,         \* url -> number of times its body was written to a file
  resp,         \* the handle_response callbacks started so far
  overlap,      \* urls for which two callbacks awaited the body together
  call,         \* the last direct call of a function and its arguments
  result        \* what that call returned

vars == <<config, run_pc, to_visit, unfinished, seen_urls, failed_urls,
          page_count, sem, pc, cur, open_pages, loads, inventory,
          finalize_calls, saved_assets, disk, resp, overlap, call,
          result>>

\* the state of the crawl engine
crawlVars == <<config, run_pc, to_visit, unfinished, seen_urls, failed_urls,
               page_count, sem, pc, cur, open_pages, loads>>

\* the state of the UICollector
invVars == <<inventory, finalize_calls>>

\* the state of the AssetProcessor
assetVars == <<saved_assets, disk, resp, overlap>>

\* the record of direct calls
callVars == <<call, result>>

Workers == DOMAIN pc

NoEntry == [url |-> None, depth |-> 0]

\* positions of _scrape_page at which the worker holds an open page
InPagePcs == {"set_viewport", "goto", "close_failed", "process", "discover", "close"}

\* positions at which a worker is inside `async with semaphore`
InFlightPcs == InPagePcs \cup {"new_page"}

HrefLists == UNION {[1..n -> Hrefs] : n \in 0..MaxLinks}

Configs ==
  [max_pages : 1..MaxPagesBound,
   max_depth : 0..MaxDepthBound,
   concurrency_pages : 1..MaxWorkers,
   respect_robots_txt : BOOLEAN]

\* ------------------------------------------------------------------------
\* Conditions and steps of the code, one operator each
\* ------------------------------------------------------------------------
\* the cap is taken for reached one page late
CapReached_Late(count, cfg) == count > cfg.max_pages

\* _worker: if self.page_count >= self.config.max_pages
CapReached(count, cfg) == count >= cfg.max_pages

\* the seen check left out
AlreadySeen_NoCheck(url, seen) == FALSE

\* _scrape_page: if url in self.seen_urls
AlreadySeen(url, seen) == url \in seen

\* _check_robots_txt (placeholder implementation)
check_robots_txt(url) == TRUE

\* the depth comparison left out
ShouldVisit_NoDepth(next_url, current_depth, seen, failed, cfg) ==
  /\ next_url \notin seen
  /\ next_url \notin failed

\* _discover_links: the condition guarding to_visit.put
ShouldVisit(next_url, current_depth, seen, failed, cfg) ==
  /\ next_url \notin seen
  /\ next_url \notin failed
  /\ current_depth + 1 <= cfg.max_depth

\* links of every origin pass
OriginAllowed_Any(next_url, cfg) == TRUE

\* _discover_links: origin restriction
OriginAllowed(next_url, cfg) ==
  ~(~cfg.respect_robots_txt /\ ~is_same_origin(start_url, next_url))

\* _discover_links: the entries put on the queue for the hrefs of one page
DiscoverEntries(hrefs, current_url, current_depth, seen, failed, cfg) ==
  LET cand == [i \in 1..Len(hrefs) |-> normalize_link(current_url, hrefs[i])]
      Accept(next_url) ==
        /\ next_url # None /\ next_url # <<>>
        /\ OriginAllowed(next_url, cfg)
        /\ ~is_asset_url(next_url)
        /\ ShouldVisit(next_url, current_depth, seen, failed, cfg)
      sel == SelectSeq(cand, Accept)
  IN [i \in 1..Len(sel) |-> [url |-> sel[i], depth |-> current_depth + 1]]

\* the entries are put at the front of the queue
Put_Front(queue, entries) == entries \o queue

\* to_visit.put for each accepted link: asyncio.Queue is first in, first out
Put(queue, entries) == queue \o entries

\* the finally of _worker does not call task_done
task_done_Missing(n) == n

\* to_visit.task_done(): the unfinished-task counter afterwards
task_done(n) == n - 1

\* join returns while one task is unfinished
JoinReturns_Early(n) == n <= 1

\* to_visit.join() returns when the unfinished-task counter is zero
JoinReturns(n) == n = 0

\* self.failed_urls.add(url)
MarkFailed(failed, url) == failed \cup {url}

\* the page is not closed
ClosePage_Leak(n) == n

\* await page.close(): the number of open pages afterwards
ClosePage(n) == n - 1

\* page.goto(url) is called once more
CountLoad(l, url) ==
  [u \in DOMAIN l \cup {url} |->
     IF u = url THEN (IF u \in DOMAIN l THEN l[u] ELSE 0) + 1 ELSE l[u]]

\* ------------------------------------------------------------------------
\* Initial state: SiteScraper.__init__
\* ------------------------------------------------------------------------
Init ==
  /\ config \in Configs
  /\ run_pc = "init"
  /\ to_visit = <<>>
  /\ unfinished = 0
  /\ seen_urls = {}
  /\ failed_urls = {}
  /\ page_count = 0
  /\ sem = 0
  /\ pc = <<>>
  /\ cur = <<>>
  /\ open_pages = 0
  /\ loads = <<>>
  /\ inventory = InitialInventory
  /\ finalize_calls = 0
  /\ saved_assets = {}
  /\ disk = <<>>
  /\ resp = <<>>
  /\ overlap = {}
  /\ call = [fn |-> "none"]
  /\ result = None

\* ------------------------------------------------------------------------
\* SiteScraper.run
\* ------------------------------------------------------------------------
\* put the seed, create the semaphore and the worker tasks, reach join()
RunStart ==
  /\ run_pc = "init"
  /\ to_visit' = <<[url |-> start_url, depth |-> 0]>>
  /\ unfinished' = 1
  /\ sem' = config.concurrency_pages
  /\ pc' = [w \in 1..config.concurrency_pages |-> "get"]
  /\ cur' = [w \in 1..config.concurrency_pages |-> NoEntry]
  /\ run_pc' = "join"
  /\ UNCHANGED <<config, seen_urls, failed_urls, page_count, open_pages, loads>>
  /\ UNCHANGED <<invVars, assetVars, callVars>>

\* to_visit.join() returns, the workers are cancelled, _finalize_scraping runs
RunFinalize ==
  /\ run_pc = "join"
  /\ JoinReturns(unfinished)
  /\ pc' = [w \in Workers |-> IF pc[w] = "get" THEN "cancelled" ELSE pc[w]]
  /\ run_pc' = "finalized"
  /\ inventory' = finalize_inventory(inventory)
  /\ finalize_calls' = finalize_calls + 1
  /\ UNCHANGED <<config, to_visit, unfinished, seen_urls, failed_urls,
                 page_count, sem, cur, open_pages, loads>>
  /\ UNCHANGED <<assetVars, callVars>>

\* ------------------------------------------------------------------------
\* SiteScraper._worker and _scrape_page
\* ------------------------------------------------------------------------
\* to_visit.get() returns an entry; the semaphore is free (it has as many
\* permits as there are workers), so the worker runs on without suspending:
\* cap check, then _scrape_page up to the call of context.new_page()
WorkerGet(w) ==
  /\ pc[w] = "get"
  /\ run_pc = "join"
  /\ to_visit # <<>>
  /\ sem > 0
  /\ LET e == Head(to_visit)
     IN /\ to_visit' = Tail(to_visit)
        /\ IF CapReached(page_count, config)
             THEN \* return inside the try: finally task_done(), task ends
                  /\ pc' = [pc EXCEPT ![w] = "returned"]
                  /\ unfinished' = task_done(unfinished)
                  /\ UNCHANGED <<seen_urls, sem, cur>>
           ELSE IF AlreadySeen(e.url, seen_urls)
             THEN /\ unfinished' = task_done(unfinished)
                  /\ UNCHANGED <<seen_urls, sem, cur, pc>>
           ELSE /\ seen_urls' = seen_urls \cup {e.url}
                /\ IF \/ (config.respect_robots_txt /\ ~check_robots_txt(e.url))
                      \/ matches_blocklist(e.url, block_host_patterns)
                     THEN /\ unfinished' = task_done(unfinished)
                          /\ UNCHANGED <<sem, cur, pc>>
                     ELSE /\ pc' = [pc EXCEPT ![w] = "new_page"]
                          /\ cur' = [cur EXCEPT ![w] = e]
                          /\ sem' = sem - 1
                          /\ UNCHANGED unfinished
  /\ UNCHANGED <<config, run_pc, failed_urls, page_count, open_pages, loads>>
  /\ UNCHANGED <<invVars, assetVars, callVars>>

\* the exception of a renderer call leaves _scrape_page and _worker:
\* the semaphore is released, finally calls task_done(), the task ends
WorkerRaise(w) ==
  /\ pc' = [pc EXCEPT ![w] = "crashed"]
  /\ cur' = [cur EXCEPT ![w] = NoEntry]
  /\ sem' = sem + 1
  /\ unfinished' = task_done(unfinished)

\* await context.new_page() returns or raises
WorkerNewPage(w) ==
  /\ pc[w] = "new_page"
  /\ \E ok \in BOOLEAN :
       IF ok
         THEN /\ open_pages' = open_pages + 1
              /\ pc' = [pc EXCEPT ![w] = "set_viewport"]
              /\ UNCHANGED <<cur, sem, unfinished>>
         ELSE /\ WorkerRaise(w)
              /\ UNCHANGED open_pages
  /\ UNCHANGED <<config, run_pc, to_visit, seen_urls, failed_urls,
                 page_count, loads>>
  /\ UNCHANGED <<invVars, assetVars, callVars>>

\* await page.set_viewport_size() returns (page.goto is called) or raises
WorkerSetViewport(w) ==
  /\ pc[w] = "set_viewport"
  /\ \E ok \in BOOLEAN :
       IF ok
         THEN /\ loads' = CountLoad(loads, cur[w].url)
              /\ pc' = [pc EXCEPT ![w] = "goto"]
              /\ UNCHANGED <<cur, sem, unfinished>>
         ELSE /\ WorkerRaise(w)
              /\ UNCHANGED loads
  /\ UNCHANGED <<config, run_pc, to_visit, seen_urls, failed_urls,
                 page_count, open_pages>>
  /\ UNCHANGED <<invVars, assetVars, callVars>>

\* await page.goto() (and the page delay) returns, or raises
WorkerGoto(w) ==
  /\ pc[w] = "goto"
  /\ \E ok \in BOOLEAN :
       IF ok
         THEN /\ page_count' = page_count + 1
              /\ pc' = [pc EXCEPT ![w] = "process"]
         ELSE /\ pc' = [pc EXCEPT ![w] = "close_failed"]
              /\ UNCHANGED page_count
  /\ UNCHANGED <<config, run_pc, to_visit, unfinished, seen_urls, failed_urls,
                 sem, cur, open_pages, loads>>
  /\ UNCHANGED <<invVars, assetVars, callVars>>

\* except branch of the navigation: await page.close() returns, the url is
\* added to failed_urls, _scrape_page returns, task_done(); or page.close()
\* raises inside the handler, before failed_urls.add: the page stays open
WorkerCloseFailed(w) ==
  /\ pc[w] = "close_failed"
  /\ \E ok \in BOOLEAN :
       IF ok
         THEN /\ open_pages' = ClosePage(open_pages)
              /\ failed_urls' = MarkFailed(failed_urls, cur[w].url)
              /\ sem' = sem + 1
              /\ unfinished' = task_done(unfinished)
              /\ pc' = [pc EXCEPT ![w] = "get"]
              /\ cur' = [cur EXCEPT ![w] = NoEntry]
         ELSE /\ WorkerRaise(w)
              /\ UNCHANGED <<open_pages, failed_urls>>
  /\ UNCHANGED <<config, run_pc, to_visit, seen_urls, page_count, loads>>
  /\ UNCHANGED <<invVars, assetVars, callVars>>

\* the page processors and collect_from_page return, update_inventory runs,
\* eval_on_selector_all is called; an exception that escapes a step goes to
\* the except branch, which adds the url to failed_urls, and to page.close()
WorkerProcess(w) ==
  /\ pc[w] = "process"
  /\ \E html_ok \in BOOLEAN :
       LET ok == [screenshot |-> ScreenshotOk, html |-> html_ok,
                  inventory |-> ~ExtractionFails(cur[w].url)]
           page_data == IF ok.inventory THEN CrawlPageData(cur[w].url)
                        ELSE EmptyData
       IN /\ inventory' = IF "inventory" \in StepsRun(ok) /\ ~Escapes(ok)
                            THEN update_inventory(inventory, page_data)
                            ELSE inventory
          /\ IF Escapes(ok)
               THEN /\ failed_urls' = MarkFailed(failed_urls, cur[w].url)
                    /\ pc' = [pc EXCEPT ![w] = "close"]
               ELSE /\ pc' = [pc EXCEPT ![w] = "discover"]
                    /\ UNCHANGED failed_urls
  /\ UNCHANGED <<config, run_pc, to_visit, unfinished, seen_urls,
                 page_count, sem, cur, open_pages, loads>>
  /\ UNCHANGED <<finalize_calls, assetVars, callVars>>

\* _discover_links: eval_on_selector_all returns the hrefs (or raises, which
\* _discover_links catches), the loop puts the accepted links on the queue,
\* page.close() is called
WorkerDiscover(w) ==
  /\ pc[w] = "discover"
  /\ \E hrefs \in HrefLists :
       LET new == DiscoverEntries(hrefs, cur[w].url, cur[w].depth,
                                  seen_urls, failed_urls, config)
       IN /\ to_visit' = Put(to_visit, new)
          /\ unfinished' = unfinished + Len(new)
  /\ pc' = [pc EXCEPT ![w] = "close"]
  /\ UNCHANGED <<config, run_pc, seen_urls, failed_urls, page_count, sem,
                 cur, open_pages, loads>>
  /\ UNCHANGED <<invVars, assetVars, callVars>>

\* finally: await page.close() returns, _scrape_page returns, task_done();
\* or page.close() raises and the exception leaves _scrape_page and _worker
WorkerClose(w) ==
  /\ pc[w] = "close"
  /\ \E ok \in BOOLEAN :
       IF ok
         THEN /\ open_pages' = ClosePage(open_pages)
              /\ sem' = sem + 1
              /\ unfinished' = task_done(unfinished)
              /\ pc' = [pc EXCEPT ![w] = "get"]
              /\ cur' = [cur EXCEPT ![w] = NoEntry]
         ELSE /\ WorkerRaise(w)
              /\ UNCHANGED open_pages
  /\ UNCHANGED <<config, run_pc, to_visit, seen_urls, failed_urls,
                 page_count, loads>>
  /\ UNCHANGED <<invVars, assetVars, callVars>>

WorkerStep(w) ==
  \/ WorkerGet(w)
  \/ WorkerNewPage(w)
  \/ WorkerSetViewport(w)
  \/ WorkerGoto(w)
  \/ WorkerCloseFailed(w)
  \/ WorkerProcess(w)
  \/ WorkerDiscover(w)
  \/ WorkerClose(w)

Next ==
  \/ RunStart
  \/ RunFinalize
  \/ \E w \in Workers : WorkerGet(w)
  \/ \E w \in Workers : WorkerNewPage(w)
  \/ \E w \in Workers : WorkerSetViewport(w)
  \/ \E w \in Workers : WorkerGoto(w)
  \/ \E w \in Workers : WorkerCloseFailed(w)
  \/ \E w \in Workers : WorkerProcess(w)
  \/ \E w \in Workers : WorkerDiscover(w)
  \/ \E w \in Workers : WorkerClose(w)

Spec == Init /\ [][Next]_vars

\* the event loop runs every task that is ready, and every renderer call
\* returns or raises (navigation has a timeout)
FairSpec ==
  /\ Spec
  /\ WF_vars(RunStart)
  /\ WF_vars(RunFinalize)
  /\ \A w \in 1..MaxWorkers : WF_vars(w \in Workers /\ WorkerStep(w))

TypeOK ==
  /\ config \in Configs
  /\ run_pc \in {"init", "join", "finalized"}
  /\ unfinished \in Nat
  /\ page_count \in Nat
  /\ sem \in 0..MaxWorkers
  /\ open_pages \in Nat
  /\ \A w \in Workers :
       pc[w] \in InFlightPcs \cup {"get", "returned", "crashed", "cancelled"}

\* ------------------------------------------------------------------------
\* AssetProcessor.handle_response
\* ------------------------------------------------------------------------
\* most handle_response callbacks of a session
MaxResponses == 3

\* ScraperConfig.save_assets
save_assets == TRUE

\* ScraperConfig.save_content_types, each prefix one token
save_content_types ==
  {"text/html", "text/css", "application/javascript",
   "application/x-javascript", "image/", "font/"}

\* urls of the responses of a session
AssetUrls ==
  { <<"https:", "//", "ex.com", "/", "logo", ".png">>,
    <<"https:", "//", "facebook.com", "/", "pixel", ".gif">> }

\* content-type headers of the responses; <<>> is a missing header
ContentTypes ==
  { <<>>, <<"image/", "png">>, <<"text/html", ";", "charset=utf-8">>,
    <<"application/json">> }

\* content_type.startswith(t)
StartsWith(content_type, t) == Len(content_type) > 0 /\ content_type[1] = t

\* the seen check is missing
AssetAlreadySaved_NoCheck(url, saved) == FALSE

\* url in self.saved_assets
AssetAlreadySaved(url, saved) == url \in saved

\* handle_response up to its first await: where it returns, or "body" when
\* it reaches await response.body()
HandleResponseStart(url, content_type, saved) ==
  IF ~save_assets THEN "disabled"
  ELSE IF matches_blocklist(url, block_host_patterns) THEN "blocked"
  ELSE IF content_type = <<>> THEN "no_type"
  ELSE IF ~\E t \in save_content_types : StartsWith(content_type, t)
    THEN "type_skipped"
  ELSE IF AssetAlreadySaved(url, saved) THEN "duplicate"
  ELSE "body"

\* what response.body() and the write of the file can do
BodyOutcomes == {"saved", "empty", "body_raised", "write_raised"}

\* the url is recorded whatever happened
SavedAfter_Always(saved, url, outcome) == saved \cup {url}

\* self.saved_assets.add(url) is the statement after the write
SavedAfter(saved, url, outcome) ==
  IF outcome = "saved" THEN saved \cup {url} ELSE saved

\* f.write(body) completed once more for the url
CountWrite(d, url) ==
  [u \in DOMAIN d \cup {url} |->
     IF u = url THEN (IF u \in DOMAIN d THEN d[u] + 1 ELSE 1) ELSE d[u]]

\* the browser context emits "response": handle_response starts and runs to
\* its first await
ResponseArrives ==
  /\ run_pc = "join"
  /\ Len(resp) < MaxResponses
  /\ \E url \in AssetUrls, content_type \in ContentTypes :
       /\ resp' = Append(resp, [url |-> url, content_type |-> content_type,
                                pc |-> HandleResponseStart(url, content_type,
                                                           saved_assets)])
       /\ overlap' =
            IF /\ HandleResponseStart(url, content_type, saved_assets) = "body"
               /\ \E i \in 1..Len(resp) : resp[i].url = url /\ resp[i].pc = "body"
              THEN overlap \cup {url} ELSE overlap
  /\ UNCHANGED <<saved_assets, disk, crawlVars, invVars, callVars>>

\* await response.body() returns or raises; the rest of the handler runs
\* without another await: the file is written and the url recorded, or the
\* except branch logs the failure
HandlerBody(i) ==
  /\ i \in 1..Len(resp)
  /\ resp[i].pc = "body"
  /\ \E outcome \in BodyOutcomes :
       /\ resp' = [resp EXCEPT ![i].pc = outcome]
       /\ disk' = IF outcome = "saved" THEN CountWrite(disk, resp[i].url)
                  ELSE disk
       /\ saved_assets' = SavedAfter(saved_assets, resp[i].url, outcome)
  /\ UNCHANGED <<overlap, crawlVars, invVars, callVars>>

\* a session with the crawl at rest after run has started it: the callbacks
\* read and write only the AssetProcessor's state
AssetInit ==
  /\ config = [max_pages |-> MaxPagesBound, max_depth |-> MaxDepthBound,
               concurrency_pages |-> MaxWorkers, respect_robots_txt |-> FALSE]
  /\ Init

AssetNext ==
  \/ RunStart
  \/ ResponseArrives
  \/ \E i \in 1..MaxResponses : HandlerBody(i)

AssetSpec == AssetInit /\ [][AssetNext]_vars

\* ------------------------------------------------------------------------
\* Direct calls of the URL utilities, of link discovery under the
\* configuration main builds, and of the UICollector
\* ------------------------------------------------------------------------
\* most update_inventory calls on one inventory
MaxMerges == 2

\* base urls of normalize_link calls
NormBases ==
  { start_url,
    <<"https:", "//", "example.com", "/", "page">>,
    <<"https:", "//", "example.com">> }

\* hrefs of normalize_link calls
NormHrefs ==
  Hrefs \cup
  { None,
    <<" ">>,
    <<" ", "mailto:", "x">>,
    <<"tel:", "+1">>,
    <<"javascript:", "void(0)">>,
    <<"#", "frag">>,
    <<" ", "#", "frag", " ">>,
    <<"/", "about">>,
    <<" ", "/", "about", "#", "team", " ">>,
    <<"?", "q">>,
    <<"//", "other.com", "/", "x">>,
    <<"invalid:", "//", "url">> }

\* a command line: absent numeric options are <<>>
CliArgs ==
  [cross_origin : BOOLEAN,
   respect_robots : BOOLEAN,
   max_pages : {<<>>},
   max_depth : {<<>>, <<0>>},
   concurrency : {<<>>}]

\* configurations loaded from a file or built from the defaults
FileConfigs ==
  [max_pages : {MaxPagesBound},
   max_depth : {MaxDepthBound},
   concurrency_pages : {MaxWorkers},
   respect_robots_txt : BOOLEAN]

\* main: the configuration after the command line overrides
main_config(cfg, args) ==
  [max_pages |-> IF args.max_pages # <<>> THEN args.max_pages[1]
                 ELSE cfg.max_pages,
   max_depth |-> IF args.max_depth # <<>> THEN args.max_depth[1]
                 ELSE cfg.max_depth,
   concurrency_pages |-> IF args.concurrency # <<>> THEN args.concurrency[1]
                         ELSE cfg.concurrency_pages,
   respect_robots_txt |-> IF args.cross_origin THEN FALSE
                          ELSE cfg.respect_robots_txt]

\* a page record as collect_from_page returns it
PageOf(fonts, colors, buttons, canvases, controls, css) ==
  [url |-> start_url,
   ui_data |-> [fonts |-> fonts, colors |-> colors, links |-> <<>>,
                buttons |-> buttons, canvases |-> canvases,
                controls |-> controls, components |-> <<>>],
   css_variables |-> css]

\* css_variables of a page
CssMaps ==
  { <<>>,
    "--a" :> "red",
    "--a" :> "blue",
    "--a" :> "",
    "--a" :> "blue" @@ "--b" :> "",
    "--b" :> "red" }

\* results of collect_from_page handed to update_inventory
PageDatas ==
  {EmptyData}
  \cup {PageOf(f, <<>>, <<>>, <<>>, <<>>, <<>>) :
          f \in {<<"arial", "Arial">>, <<"Helvetica", "Helvetica">>}}
  \cup {PageOf(<<>>, <<"rgb(255, 0, 0)", "rgb(0, 255, 0)">>, <<>>, <<>>, <<>>, <<>>)}
  \cup {PageOf(<<>>, <<>>, Items(ButtonsCap + 1), <<>>, <<>>, <<>>),
        PageOf(<<>>, <<>>, Items(1), Items(LinksCap + 1), <<>>, <<>>),
        PageOf(<<>>, <<>>, <<>>, Items(1), Items(LinksCap + 1), <<>>)}
  \cup {PageOf(<<>>, <<>>, <<>>, <<>>, <<>>, css) : css \in CssMaps}

\* no function has been called directly yet, or only those of fns: a pure
\* function is called once on inputs drawn from the sets above, the
\* UICollector is called repeatedly
Calling(fns) == call.fn \in fns \cup {"none"}

\* URLUtils.normalize_link(base, href) is called
CallNormalizeLink ==
  /\ Calling({})
  /\ \E base \in NormBases, href \in NormHrefs :
       /\ call' = [fn |-> "normalize_link", base |-> base, href |-> href]
       /\ result' = normalize_link(base, href)
  /\ UNCHANGED <<crawlVars, invVars, assetVars>>

\* urls of is_asset_url calls
AssetCandidates ==
  { <<"https:", "//", "x.com", "/", "a", ".woff2">>,
    <<"https:", "//", "x.com", "/", "page">>,
    <<"https:", "//", "x.com", "/", "a", ".PNG">>,
    <<"https:", "//", "x.com", "/", "a", ".png", "?", "v=1">>,
    <<"https:", "//", "x.com", "/", "page", "?", "file=a", ".png">>,
    <<"https:", "//", "x.com", "/", "a", ".png", "/", "view">>,
    <<"https:", "//", "example.com", "/", "image", ".png">>,
    <<"https:", "//", "example.com", "/", "style", ".css">>,
    <<"https:", "//", "example.com", "/", "script", ".js">>,
    <<"https:", "//", "example.com">> }

\* URLUtils.is_asset_url(url) is called
CallIsAssetUrl ==
  /\ Calling({})
  /\ \E url \in AssetCandidates :
       /\ call' = [fn |-> "is_asset_url", url |-> url]
       /\ result' = is_asset_url(url)
  /\ UNCHANGED <<crawlVars, invVars, assetVars>>

\* main builds the configuration of the scraper and _discover_links runs on
\* the seed page: every accepted link is put on the queue, which raises the
\* unfinished-task counter, and the call returns None
CallDiscoverLinks ==
  /\ Calling({})
  /\ \E cfg \in FileConfigs, args \in CliArgs, hrefs \in HrefLists :
       LET new == DiscoverEntries(hrefs, start_url, 0, seen_urls, failed_urls,
                                  main_config(cfg, args))
       IN /\ call' = [fn |-> "discover_links", cfg |-> cfg, args |-> args,
                      hrefs |-> hrefs]
          /\ config' = main_config(cfg, args)
          /\ to_visit' = Put(to_visit, new)
          /\ unfinished' = unfinished + Len(new)
  /\ result' = None
  /\ UNCHANGED <<run_pc, seen_urls, failed_urls, page_count, sem, pc, cur,
                 open_pages, loads>>
  /\ UNCHANGED <<invVars, assetVars>>

\* the page_data arguments of the update_inventory calls made so far
CallHistory == IF call.fn = "none" THEN <<>> ELSE call.history

\* UICollector.update_inventory(page_data) is called
CallUpdateInventory ==
  /\ Calling({"update_inventory"})
  /\ finalize_calls = 0
  /\ Len(CallHistory) < MaxMerges
  /\ \E page_data \in PageDatas :
       /\ call' = [fn |-> "update_inventory", page_data |-> page_data,
                   before |-> inventory,
                   history |-> Append(CallHistory, page_data)]
       /\ inventory' = update_inventory(inventory, page_data)
  /\ result' = None
  /\ UNCHANGED <<finalize_calls, crawlVars, assetVars>>

\* UICollector.finalize_inventory() is called
CallFinalizeInventory ==
  /\ Calling({"update_inventory"})
  /\ finalize_calls = 0
  /\ call' = [fn |-> "finalize_inventory", before |-> inventory,
              history |-> CallHistory]
  /\ inventory' = finalize_inventory(inventory)
  /\ finalize_calls' = finalize_calls + 1
  /\ result' = None
  /\ UNCHANGED <<crawlVars, assetVars>>

CallInit == AssetInit

CallNext ==
  \/ CallNormalizeLink
  \/ CallIsAssetUrl
  \/ CallDiscoverLinks
  \/ CallUpdateInventory
  \/ CallFinalizeInventory

CallSpec == CallInit /\ [][CallNext]_vars

\* ------------------------------------------------------------------------
\* Properties
\* ------------------------------------------------------------------------
\* entries a worker holds between to_visit.get() and task_done()
InFlight == {w \in Workers : pc[w] \in InFlightPcs}

\* C1: page_count never exceeds max_pages, whatever the interleaving of the
\* workers.
C1_PageCountWithinCap == page_count <= config.max_pages

\* C2: every session in which no renderer call kills a worker eventually
\* reaches finalization, also when the page cap is hit while entries are
\* still pending.
C2_ReachesFinalization ==
  <>(run_pc = "finalized" \/ \E w \in Workers : pc[w] = "crashed")

\* C3: at most one navigation (page.goto) is ever started for a URL, also
\* when the URL is put on the queue more than once.
C3_AtMostOneLoad == \A u \in DOMAIN loads : loads[u] <= 1

\* a URL that has been navigated is still pending on the queue: it was put
\* more than once
C3_Witness ==
  \E i \in 1..Len(to_visit) :
    /\ to_visit[i].url \in DOMAIN loads
    /\ loads[to_visit[i].url] = 1

\* C4: every entry on the frontier and every URL being navigated has
\* 0 <= depth <= max_depth.
C4_DepthBounded ==
  /\ \A i \in 1..Len(to_visit) :
       to_visit[i].depth >= 0 /\ to_visit[i].depth <= config.max_depth
  /\ \A w \in InFlight :
       cur[w].depth >= 0 /\ cur[w].depth <= config.max_depth

\* link discovery has run on a page at the maximum depth, below the seed
C4_Witness ==
  \E w \in Workers :
    /\ pc[w] = "close"
    /\ cur[w].depth = config.max_depth
    /\ cur[w].depth >= 1

\* C5: at session end seen_urls and failed_urls are disjoint and every
\* navigated URL is in one of them.
C5_ExactlyOneSet ==
  run_pc = "finalized" =>
    /\ seen_urls \cap failed_urls = {}
    /\ \A u \in DOMAIN loads : u \in seen_urls \cup failed_urls

\* C6: with retry_failed_pages and max_retries = R, a URL is in the failed
\* set only after it has been attempted again until its retries were used up.
C6_RetriedBeforeFailed ==
  (retry_failed_pages /\ max_retries >= 1) =>
    \A u \in failed_urls : u \in DOMAIN loads /\ loads[u] >= max_retries

\* C7: the number of crawl pages open between new_page() and page.close()
\* is at most concurrency_pages.
C7_OpenPagesBounded == open_pages <= config.concurrency_pages

\* as many pages are open as there are workers, with more than one worker
C7_Witness ==
  /\ config.concurrency_pages >= 2
  /\ open_pages = config.concurrency_pages

\* C8: once page_count >= max_pages no navigation is started any more, and
\* no entry is in flight when the session is finalized.
C8_NoNavigationAfterCap ==
  /\ [][CapReached(page_count, config) => loads' = loads]_vars
  /\ [](run_pc = "finalized" => InFlight = {})

\* C9: the pending queue together with the in-flight entries holds at most
\* one entry per URL.
C9_OneEntryPerUrl ==
  /\ \A i, j \in 1..Len(to_visit) :
       i # j => to_visit[i].url # to_visit[j].url
  /\ \A i \in 1..Len(to_visit) : \A w \in InFlight :
       to_visit[i].url # cur[w].url
  /\ \A v, w \in InFlight : v # w => cur[v].url # cur[w].url

\* C10: every page opened by _scrape_page is closed when the call is left:
\* the open pages are exactly those of the workers still inside the call.
C10_PagesClosed ==
  open_pages = Cardinality({w \in Workers : pc[w] \in InPagePcs})

\* C11: every session calls finalize_inventory exactly once (unless a renderer
\* call crashed a worker), never twice, and once it has run no worker merges
\* a page into the inventory, increments page_count or adds to seen_urls or
\* failed_urls.
C11_FinalizedExactlyOnce ==
  /\ <>(finalize_calls = 1 \/ \E w \in Workers : pc[w] = "crashed")
  /\ [](finalize_calls <= 1)
  /\ [][finalize_calls >= 1 =>
          UNCHANGED <<inventory, page_count, seen_urls, failed_urls>>]_vars

\* C12: a response whose url matches a blocklist pattern is never written to
\* disk and never recorded in saved_assets: its handler returns at the
\* blocklist check, whatever the content-type, and never awaits the body.
C12_BlockedNeverSaved ==
  \A i \in 1..Len(resp) :
    (\E k \in 1..Len(resp[i].url) : resp[i].url[k] \in block_host_patterns)
      => /\ resp[i].pc = "blocked"
         /\ resp[i].url \notin saved_assets
         /\ resp[i].url \notin DOMAIN disk

\* a blocklisted response with a content-type that is saved has been handled
C12_Witness ==
  \E i \in 1..Len(resp) :
    /\ \E k \in 1..Len(resp[i].url) : resp[i].url[k] \in block_host_patterns
    /\ StartsWith(resp[i].content_type, "image/")
    /\ resp[i].pc = "blocked"

\* C13 as stated: the body of a url is written to disk at most once in a
\* session, whatever the interleaving of the callbacks.
C13_AtMostOneWrite == \A u \in DOMAIN disk : disk[u] <= 1

\* C13 amended: a url is written more than once only if two callbacks for it
\* awaited response.body() at the same time; a callback that starts after the
\* url was recorded in saved_assets returns at the seen check.
C13_DuplicateOnlyWhenOverlapping ==
  /\ \A u \in DOMAIN disk : disk[u] > 1 => u \in overlap
  /\ \A i \in 1..Len(resp) : resp[i].pc = "duplicate" => resp[i].url \in saved_assets

\* a url was written once and a later callback for it returned at the seen
\* check
C13_Witness ==
  \E i \in 1..Len(resp), j \in 1..Len(resp) :
    /\ i < j
    /\ resp[i].url = resp[j].url
    /\ resp[i].pc = "saved"
    /\ resp[j].pc = "duplicate"
    /\ disk[resp[i].url] = 1

\* C14: on a navigated page whose screenshot, HTML save or inventory
\* extraction fails, the worker goes on to link discovery: the step that ends
\* the processing leads to the discovery of the page's links, page_count is
\* not taken back and the page's url is not added to failed_urls.
C14_ProcessorFailureContained ==
  [][\A w \in Workers :
       (pc[w] = "process" /\ (~ScreenshotOk \/ ExtractionFails(cur[w].url)))
         => /\ pc'[w] \in {"process", "discover"}
            /\ page_count' >= page_count
            /\ cur[w].url \notin failed_urls']_vars

\* link discovery has run on a counted page whose screenshot and inventory
\* extraction failed: the page is not in the inventory and not in failed_urls
C14_Witness ==
  \E w \in Workers :
    /\ pc[w] = "close"
    /\ ExtractionFails(cur[w].url)
    /\ \A i \in 1..Len(inventory.pages) : inventory.pages[i].url # cur[w].url
    /\ cur[w].url \notin failed_urls
    /\ page_count >= 1

\* C15: when response.body() or the write raises inside handle_response, the
\* step changes nothing of the crawl (queue, counters, seen and failed sets,
\* worker positions) and does not record the url in saved_assets, so a url
\* not yet saved is still accepted by the next callback for it.
C15_AssetFailureContained ==
  [][\A i \in 1..Len(resp) :
       (resp[i].pc = "body" /\ resp'[i].pc \in {"body_raised", "write_raised"})
         => /\ UNCHANGED <<to_visit, unfinished, page_count, seen_urls,
                           failed_urls, pc, run_pc>>
            /\ saved_assets' = saved_assets
            /\ (resp[i].url \notin saved_assets
                  => HandleResponseStart(resp[i].url, resp[i].content_type,
                                         saved_assets') = "body")]_vars

\* a callback failed at the write and a later response for the same url was
\* saved
C15_Witness ==
  \E i \in 1..Len(resp), j \in 1..Len(resp) :
    /\ i < j
    /\ resp[i].url = resp[j].url
    /\ resp[i].pc = "write_raised"
    /\ resp[j].pc = "saved"
    /\ resp[i].url \in saved_assets

\* C16: one update_inventory call grows buttons by at most ButtonsCap entries
\* and canvases and interactive_controls by at most LinksCap entries, the
\* largest slice limit of update_inventory, however long the page's lists.
C16_GrowthCapped ==
  (call.fn = "update_inventory")
    => /\ Len(inventory.buttons) - Len(call.before.buttons) <= ButtonsCap
       /\ Len(inventory.canvases) - Len(call.before.canvases) <= LinksCap
       /\ Len(inventory.interactive_controls)
            - Len(call.before.interactive_controls) <= LinksCap

\* C17 as stated: after update_inventory the session css_variables hold the
\* page's value for every key of the page, an empty string included, and
\* every other key keeps its previous value.
C17_LastWriterWinsAlways ==
  (call.fn = "update_inventory" /\ call.page_data # EmptyData)
    => /\ \A k \in DOMAIN call.page_data.css_variables :
            /\ k \in DOMAIN inventory.css_variables
            /\ inventory.css_variables[k] = call.page_data.css_variables[k]
       /\ \A k \in DOMAIN call.before.css_variables
                     \ DOMAIN call.page_data.css_variables :
            inventory.css_variables[k] = call.before.css_variables[k]

\* C17 amended: the session css_variables hold the page's value for every key
\* whose page value is a non-empty string; a key whose page value is empty,
\* like a key absent from the page, keeps its previous value or stays unset.
C17_LastNonEmptyWriterWins ==
  (call.fn = "update_inventory" /\ call.page_data # EmptyData)
    => /\ \A k \in DOMAIN call.page_data.css_variables :
            call.page_data.css_variables[k] # ""
              => /\ k \in DOMAIN inventory.css_variables
                 /\ inventory.css_variables[k] = call.page_data.css_variables[k]
       /\ \A k \in DOMAIN call.page_data.css_variables :
            call.page_data.css_variables[k] = ""
              => IF k \in DOMAIN call.before.css_variables
                   THEN /\ k \in DOMAIN inventory.css_variables
                        /\ inventory.css_variables[k] = call.before.css_variables[k]
                   ELSE k \notin DOMAIN inventory.css_variables
       /\ \A k \in DOMAIN call.before.css_variables
                     \ DOMAIN call.page_data.css_variables :
            inventory.css_variables[k] = call.before.css_variables[k]

\* a page overwrote the value of one key while its empty value for another
\* key left that key unset, and a key absent from the page kept its value
C17_Witness ==
  /\ call.fn = "update_inventory"
  /\ call.page_data # EmptyData
  /\ call.before.css_variables = ("--a" :> "red")
  /\ call.page_data.css_variables = ("--a" :> "blue" @@ "--b" :> "")
  /\ inventory.css_variables = ("--a" :> "blue")

\* C18: with --cross-origin every discovered link of another origin that is
\* not an asset url, not seen and within max_depth is put on the queue.
C18_CrossOriginEnqueued ==
  (call.fn = "discover_links" /\ call.args.cross_origin)
    => \A i \in 1..Len(call.hrefs) :
         (/\ normalize_link(start_url, call.hrefs[i]) # None
          /\ ~is_same_origin(start_url, normalize_link(start_url, call.hrefs[i]))
          /\ ~is_asset_url(normalize_link(start_url, call.hrefs[i]))
          /\ main_config(call.cfg, call.args).max_depth >= 1)
           => \E j \in 1..Len(to_visit) :
                to_visit[j].url = normalize_link(start_url, call.hrefs[i])

\* C19: normalize_link returns None for an href that is empty or None or
\* whose first token after leading whitespace is mailto:, tel:, javascript:
\* or #; any url it returns has no fragment and is absolute, with the origin
\* of the base when the href has neither scheme nor host; base
\* https://example.com/page and href /about give https://example.com/about.
C19_NormalizeLink ==
  (call.fn = "normalize_link")
    => /\ (\/ call.href = <<>>
           \/ call.href = None
           \/ \E i \in 1..Len(call.href) :
                /\ call.href[i] \in {"mailto:", "tel:", "javascript:", "#"}
                /\ \A j \in 1..(i - 1) : call.href[j] \in Whitespace)
            => result = None
       /\ result # None
            => /\ \A i \in 1..Len(result) : result[i] # "#"
               /\ result[1] \in SchemeTokens
               /\ (\A i \in 1..Len(call.href) :
                     call.href[i] \notin SchemeTokens \cup {"//"})
                    => SubSeq(result, 1, 3) = SubSeq(call.base, 1, 3)
       /\ (/\ call.base = <<"https:", "//", "example.com", "/", "page">>
           /\ call.href = <<"/", "about">>)
            => result = <<"https:", "//", "example.com", "/", "about">>

\* an href with surrounding whitespace and a fragment was resolved against
\* the base and lost its fragment
C19_Witness ==
  /\ call.fn = "normalize_link"
  /\ call.base = <<"https:", "//", "example.com", "/", "page">>
  /\ call.href = <<" ", "/", "about", "#", "team", " ">>
  /\ result = <<"https:", "//", "example.com", "/", "about">>

\* C20: normalize_link returns None for an href with an unrecognised scheme
\* such as invalid://url.
C20_InvalidSchemeRejected ==
  (call.fn = "normalize_link" /\ call.href = <<"invalid:", "//", "url">>)
    => result = None

\* C21: is_asset_url(url) is true exactly when the path component of the url
\* ends in one of the asset extensions, whatever the query string.
C21_AssetByPath ==
  (call.fn = "is_asset_url")
    => (result <=> /\ UrlParse(call.url).path # <<>>
                   /\ UrlParse(call.url).path[Len(UrlParse(call.url).path)]
                        \in AssetExtensions)

\* C22: is_asset_url returns True for a url ending in .css or .js, as for
\* image and font urls, and False for an extensionless page url.
C22_StylesAndScriptsAreAssets ==
  (call.fn = "is_asset_url")
    => /\ call.url[Len(call.url)] \in {".css", ".js", ".png", ".woff2"}
            => result
       /\ call.url[Len(call.url)] = "page" => ~result

\* C23: after update_inventory calls followed by finalize_inventory, fonts
\* and colors are strictly ascending sequences (sorted, no duplicates) whose
\* elements are exactly the font and color strings of the merged pages; the
\* result depends on the set of merged strings only, not on the merge order.
C23_SortedDeduplicated ==
  (call.fn = "finalize_inventory")
    => /\ \A i \in 1..Len(inventory.fonts), j \in 1..Len(inventory.fonts) :
            i < j => \E a \in 1..Len(SortedStrings), b \in 1..Len(SortedStrings) :
                       /\ a < b
                       /\ SortedStrings[a] = inventory.fonts[i]
                       /\ SortedStrings[b] = inventory.fonts[j]
       /\ \A i \in 1..Len(inventory.colors), j \in 1..Len(inventory.colors) :
            i < j => \E a \in 1..Len(SortedStrings), b \in 1..Len(SortedStrings) :
                       /\ a < b
                       /\ SortedStrings[a] = inventory.colors[i]
                       /\ SortedStrings[b] = inventory.colors[j]
       /\ {inventory.fonts[i] : i \in 1..Len(inventory.fonts)}
            = UNION {{call.history[n].ui_data.fonts[k] :
                        k \in 1..Len(call.history[n].ui_data.fonts)} :
                     n \in {m \in 1..Len(call.history) :
                              call.history[m] # EmptyData}}
       /\ {inventory.colors[i] : i \in 1..Len(inventory.colors)}
            = UNION {{call.history[n].ui_data.colors[k] :
                        k \in 1..Len(call.history[n].ui_data.colors)} :
                     n \in {m \in 1..Len(call.history) :
                              call.history[m] # EmptyData}}

\* two pages with repeated fonts were merged in descending order of their
\* fonts and the inventory was finalized
C23_Witness ==
  /\ call.fn = "finalize_inventory"
  /\ Len(call.history) = 2
  /\ call.history[1] # EmptyData
  /\ call.history[2] # EmptyData
  /\ call.history[1].ui_data.fonts = <<"Helvetica", "Helvetica">>
  /\ call.history[2].ui_data.fonts = <<"arial", "Arial">>
  /\ inventory.fonts = <<"Arial", "Helvetica", "arial">>

\* C24: the step in which to_visit.join() returns and _finalize_scraping
\* begins is taken from a drained state: the pending queue is empty and no
\* worker is between to_visit.get() returning and its task_done().
C24_FinalizeWhenDrained ==
  [][(run_pc = "join" /\ run_pc' = "finalized")
       => (to_visit = <<>> /\ InFlight = {})]_vars

\* a session was finalized after pages were navigated by two workers, one of
\* which had failed a navigation
C24_Witness ==
  /\ run_pc = "finalized"
  /\ page_count >= 1
  /\ failed_urls # {}
  /\ config.concurrency_pages = 2

\* C25: the unfinished-task counter of the queue equals the number of pending
\* entries plus the number of entries workers hold in flight, and is never
\* negative: every dequeued entry gets exactly one task_done() on every path.
C25_UnfinishedBalanced ==
  /\ unfinished = Len(to_visit) + Cardinality(InFlight)
  /\ unfinished >= 0

\* a worker discarded an entry at the cap, another url failed to load, and
\* entries are still pending while a worker holds one in flight
C25_Witness ==
  /\ \E w \in Workers : pc[w] = "returned"
  /\ failed_urls # {}
  /\ to_visit # <<>>
  /\ InFlight # {}

\* C26: when page.goto fails, page_count is not incremented; the step that
\* ends the except branch adds the url to failed_urls, puts no link on the
\* queue, leaves page_count alone and returns the worker to to_visit.get(),
\* where it takes the remaining entries.
C26_NavigationFailureContained ==
  [][\A w \in Workers :
       /\ (pc[w] = "goto" /\ pc'[w] = "close_failed")
            => UNCHANGED <<page_count, to_visit, inventory>>
       /\ (pc[w] = "close_failed" /\ pc'[w] # "close_failed")
            => /\ cur[w].url \in failed_urls'
               /\ UNCHANGED <<page_count, to_visit, inventory>>
               /\ pc'[w] = "get"]_vars

\* C27: the step that dequeues an entry while page_count >= max_pages
\* removes that entry from the head of the queue and changes nothing else of
\* seen_urls, failed_urls, page_count, the inventory and the queue; no page
\* is opened and no navigation is started.
C27_DiscardWithoutEffects ==
  [][(page_count >= config.max_pages /\ Len(to_visit') < Len(to_visit))
       => /\ to_visit' = Tail(to_visit)
          /\ UNCHANGED <<seen_urls, failed_urls, page_count, inventory,
                         open_pages, loads, cur>>]_vars

\* a worker discarded an entry at the cap while another entry is pending
C27_Witness ==
  /\ \E w \in Workers : pc[w] = "returned"
  /\ page_count >= config.max_pages
  /\ to_visit # <<>>
  /\ Len(inventory.pages) >= 1

\* C28: with one worker the entries leave the queue in non-decreasing depth
\* order: the pending entries are ordered by depth and the entry the worker
\* holds is no deeper than any pending entry, so no url of depth d+1 is
\* navigated while an entry of depth d is pending.
C28_BreadthFirst ==
  (run_pc = "join" /\ config.concurrency_pages = 1)
    => /\ \A i \in 1..Len(to_visit), j \in 1..Len(to_visit) :
            i < j => to_visit[i].depth <= to_visit[j].depth
       /\ \A w \in InFlight : \A i \in 1..Len(to_visit) :
            cur[w].depth <= to_visit[i].depth

\* the single worker holds an entry of depth 1 while entries of depth 1 and
\* of depth 2 are pending
C28_Witness ==
  /\ config.concurrency_pages = 1
  /\ \E w \in InFlight : cur[w].depth = 1
  /\ \E i \in 1..Len(to_visit), j \in 1..Len(to_visit) :
       to_visit[i].depth = 1 /\ to_visit[j].depth = 2

\* C29: with respect_robots_txt false every entry on the queue, every url a
\* worker holds and every url navigated has the scheme and host of the seed.
C29_SameOriginOnly ==
  (~config.respect_robots_txt)
    => /\ \A i \in 1..Len(to_visit) :
            SubSeq(to_visit[i].url, 1, 3) = SubSeq(start_url, 1, 3)
       /\ \A w \in InFlight : SubSeq(cur[w].url, 1, 3) = SubSeq(start_url, 1, 3)
       /\ \A u \in DOMAIN loads : SubSeq(u, 1, 3) = SubSeq(start_url, 1, 3)

\* under the default origin handling a discovered url other than the seed has
\* been navigated and more discovered urls are pending
C29_Witness ==
  /\ ~config.respect_robots_txt
  /\ \E u \in DOMAIN loads : u # start_url
  /\ to_visit # <<>>

\* C30 as stated: the step that dequeues a url matching a blocklist pattern
\* adds it to seen_urls and opens no page, starts no navigation and leaves
\* page_count and failed_urls alone.
C30_BlockedSkippedAndSeen ==
  [][(/\ Len(to_visit') < Len(to_visit)
      /\ \E k \in 1..Len(to_visit[1].url) :
           to_visit[1].url[k] \in block_host_patterns)
       => /\ to_visit[1].url \in seen_urls'
          /\ UNCHANGED <<page_count, failed_urls, open_pages, loads, cur>>]_vars

\* C30 amended: a dequeued url matching a blocklist pattern is never
\* navigated (no page, no navigation, page_count and failed_urls unchanged);
\* when it is dequeued below the page cap it is added to seen_urls.
C30_BlockedSkippedSeenBelowCap ==
  [][(/\ Len(to_visit') < Len(to_visit)
      /\ \E k \in 1..Len(to_visit[1].url) :
           to_visit[1].url[k] \in block_host_patterns)
       => /\ page_count < config.max_pages => to_visit[1].url \in seen_urls'
          /\ UNCHANGED <<page_count, failed_urls, open_pages, loads, cur>>]_vars

\* a blocklisted url was dequeued during the crawl: it is in seen_urls and
\* no longer pending, was never navigated and is not in failed_urls
C30_Witness ==
  \E u \in seen_urls :
    /\ \E k \in 1..Len(u) : u[k] \in block_host_patterns
    /\ u \notin DOMAIN loads
    /\ u \notin failed_urls
    /\ \A i \in 1..Len(to_visit) : to_visit[i].url # u
    /\ run_pc = "join"

\* C31: at finalization the persisted inventory's meta.total_pages equals the
\* session's page_count, the total_pages value written to the summary report.
C31_TotalPagesMatchesPageCount ==
  (run_pc = "finalized") => inventory.total_pages = page_count

====
